---- MODULE Spec2Model ----
(***************************************************************************)
(* Model of vkconfig_core's layer manifest loader (Layer::Load and its     *)
(* helpers) and of the comma-delimited string helpers AppendString and     *)
(* RemoveString, as found in src/unnamed/part_000 (later revision, lines   *)
(* 239-542).                                                               *)
(*                                                                         *)
(* QString values handled by AppendString/RemoveString are sequences of    *)
(* one-character strings; every other QString/std::string is a TLA+        *)
(* string, concatenated with \o.  File paths are sequences of path         *)
(* segments, so that startsWith() is a prefix test.                        *)
(***************************************************************************)
EXTENDS Integers, Sequences, FiniteSets, TLC

VARIABLES
    ndebug,           \* TRUE: built with NDEBUG, assert() compiles to nothing;
                      \* the operators of Load take it as their parameter nd
    files,            \* the bundled resource files: path -> content
    layer,            \* the Layer object Load is called on
    loads,            \* Load calls on `layer` since it was constructed
    last,             \* the last Load call: its inputs and what it did
    delimitedString,  \* the QString AppendString/RemoveString work on
    strLast           \* the last AppendString/RemoveString call

vars == <<ndebug, files, layer, loads, last, delimitedString, strLast>>

loadVars == <<ndebug, files, layer, loads, last>>

strVars == <<delimitedString, strLast>>

-----------------------------------------------------------------------------
(* Bounds of the model *)

\* longest delimited string the helpers are started on; AppendString is called
\* while the string and the value together are no longer
MaxLen == 3

\* longest value handed to AppendString/RemoveString
MaxValLen == 2

\* Load calls on one Layer object before it is constructed anew
MaxLoads == 2

\* nesting of Load calls the model follows before giving up
MaxDepth == 3

-----------------------------------------------------------------------------
(* QString / QStringList operations used by the helpers *)

Alphabet == {"a", "b", ","}

RECURSIVE StringsUpTo(_)
StringsUpTo(n) ==
    IF n = 0 THEN {<<>>}
    ELSE LET shorter == StringsUpTo(n - 1)
         IN  shorter \cup {Append(s, c) : s \in {t \in shorter : Len(t) = n - 1}, c \in Alphabet}

\* QString::contains(v): v occurs in s as a substring
Contains(s, v) ==
    \E i \in 0..(Len(s) - Len(v)) : SubSeq(s, i + 1, i + Len(v)) = v

\* index of the first ',' of s, 0 when there is none
FirstComma(s) ==
    IF \E i \in 1..Len(s) : s[i] = ","
    THEN CHOOSE i \in 1..Len(s) : s[i] = "," /\ \A j \in 1..(i - 1) : s[j] # ","
    ELSE 0

\* QString::split(","): empty parts are kept, "" splits into one empty part
RECURSIVE Split(_)
Split(s) ==
    LET c == FirstComma(s)
    IN  IF c = 0 THEN <<s>>
        ELSE <<SubSeq(s, 1, c - 1)>> \o Split(SubSeq(s, c + 1, Len(s)))

\* QStringList::join(",")
RECURSIVE Join(_)
Join(list) ==
    IF Len(list) = 0 THEN <<>>
    ELSE IF Len(list) = 1 THEN list[1]
    ELSE list[1] \o <<",">> \o Join(Tail(list))

\* QStringList::removeAt(i), i counted from 1 here
RemoveAt(list, i) ==
    SubSeq(list, 1, i - 1) \o SubSeq(list, i + 1, Len(list))

\* the loop without its break: every element equal to v goes
RemoveFirst_all(list, v) ==
    SelectSeq(list, LAMBDA e : e # v)

\* the for loop of RemoveString: removes the first element equal to v
RemoveFirst(list, v) ==
    IF \E i \in 1..Len(list) : list[i] = v
    THEN RemoveAt(list, CHOOSE i \in 1..Len(list) :
                          list[i] = v /\ \A j \in 1..(i - 1) : list[j] # v)
    ELSE list

RemoveString(s, default_value) ==
    IF ~Contains(s, default_value) THEN s
    ELSE Join(RemoveFirst(Split(s), default_value))

AppendString(s, default_value) ==
    IF Contains(s, default_value) THEN s
    ELSE (IF s # <<>> THEN s \o <<",">> ELSE s) \o default_value

-----------------------------------------------------------------------------
(* The helpers as operations on one delimited string *)

StrValues == StringsUpTo(MaxValLen)

NoStrCall == [op |-> "none", value |-> <<>>, before |-> <<>>]

DoAppendString ==
    \E v \in StrValues :
        /\ Len(delimitedString) + Len(v) <= MaxLen
        /\ delimitedString' = AppendString(delimitedString, v)
        /\ strLast' = [op |-> "append", value |-> v, before |-> delimitedString]
        /\ UNCHANGED loadVars

DoRemoveString ==
    \E v \in StrValues :
        /\ delimitedString' = RemoveString(delimitedString, v)
        /\ strLast' = [op |-> "remove", value |-> v, before |-> delimitedString]
        /\ UNCHANGED loadVars

StrNext == DoAppendString \/ DoRemoveString

-----------------------------------------------------------------------------
(* QJsonValue: a value is undefined (the key is absent), a string, a       *)
(* number, an array or an object.  An object is a function from its keys.  *)

JUndef == [kind |-> "undefined"]

JStr(s) == [kind |-> "string", str |-> s]

JInt(n) == [kind |-> "number", num |-> n]

JArr(a) == [kind |-> "array", arr |-> a]

JObj(o) == [kind |-> "object", obj |-> o]

EmptyObject == [k \in {} |-> JUndef]

\* value == QJsonValue::Undefined
IsUndefined(v) == v.kind = "undefined"

\* QJsonObject::value(key)
Value(o, key) == IF key \in DOMAIN o THEN o[key] ELSE JUndef

\* QJsonValue::toString(): the null QString for anything but a string
toString(v) == IF v.kind = "string" THEN v.str ELSE ""

\* QJsonValue::toObject(): the empty object for anything but an object
toObject(v) == IF v.kind = "object" THEN v.obj ELSE EmptyObject

\* QJsonValue::toArray(): the empty array for anything but an array
toArray(v) == IF v.kind = "array" THEN v.arr ELSE <<>>

\* the object o with key set to v, and with key removed
With(o, key, v) == (key :> v) @@ o

Without(o, key) == [k \in DOMAIN o \ {key} |-> o[k]]

-----------------------------------------------------------------------------
(* The document reader of json.h.  A read that finds its field absent or   *)
(* of the wrong shape fails; Load then ends with a failure.                *)

Failed == [ok |-> FALSE]

Got(v) == [ok |-> TRUE, val |-> v]

ReadStringValue(o, key) ==
    LET v == Value(o, key)
    IN  IF v.kind = "string" THEN Got(v.str) ELSE Failed

ReadIntValue(o, key) ==
    LET v == Value(o, key)
    IN  IF v.kind = "number" THEN Got(v.num) ELSE Failed

ReadObject(o, key) ==
    LET v == Value(o, key)
    IN  IF v.kind = "object" THEN Got(v.obj) ELSE Failed

ReadArray(o, key) ==
    LET v == Value(o, key)
    IN  IF v.kind = "array" THEN Got(v.arr) ELSE Failed

\* the join with the delimiter added after the last element too
RECURSIVE JoinArray_trailing(_)
JoinArray_trailing(array) ==
    IF Len(array) = 0 THEN ""
    ELSE toString(array[1]) \o "," \o JoinArray_trailing(Tail(array))

\* the comma-join of an array of strings: no leading or trailing delimiter
RECURSIVE JoinArray(_)
JoinArray(array) ==
    IF Len(array) = 0 THEN ""
    ELSE IF Len(array) = 1 THEN toString(array[1])
    ELSE toString(array[1]) \o "," \o JoinArray(Tail(array))

\* a string, or an array of strings flattened to one string
ReadString(o, key) ==
    LET v == Value(o, key)
    IN  IF v.kind = "array" THEN Got(JoinArray(v.arr))
        ELSE IF v.kind = "string" THEN Got(v.str)
        ELSE Failed

ReadStringArray(o, key) ==
    LET v == Value(o, key)
    IN  IF v.kind = "array" /\ \A i \in 1..Len(v.arr) : v.arr[i].kind = "string"
        THEN Got([i \in 1..Len(v.arr) |-> v.arr[i].str])
        ELSE Failed

-----------------------------------------------------------------------------
(* Version, setting types, platforms, status and the path utilities        *)

VERSION_NULL == [null |-> TRUE, major |-> 0, minor |-> 0, patch |-> 0]

MakeVersion(major, minor, patch) ==
    [null |-> FALSE, major |-> major, minor |-> minor, patch |-> patch]

\* Version(const char*): a dotted version, the null version when it is not one
ParseVersion(s) ==
    CASE s = "1.2.154" -> MakeVersion(1, 2, 154)
      [] s = "1.2.162" -> MakeVersion(1, 2, 162)
      [] s = "1.0.0" -> MakeVersion(1, 0, 0)
      [] s = "2.0.3" -> MakeVersion(2, 0, 3)
      [] s = "1.4.0" -> MakeVersion(1, 4, 0)
      [] OTHER -> VERSION_NULL

VersionLE(a, b) ==
    \/ a.major < b.major
    \/ a.major = b.major /\ a.minor < b.minor
    \/ a.major = b.major /\ a.minor = b.minor /\ a.patch <= b.patch

SettingTypes ==
    {"SETTING_STRING", "SETTING_BOOL", "SETTING_BOOL_NUMERIC", "SETTING_EXCLUSIVE_LIST",
     "SETTING_INCLUSIVE_LIST", "SETTING_LOAD_FILE", "SETTING_SAVE_FILE",
     "SETTING_SAVE_FOLDER", "SETTING_VUID_FILTER"}

\* GetSettingType: the closed enumeration, by exact match of the type's name
GetSettingType(s) ==
    CASE s = "string" -> Got("SETTING_STRING")
      [] s = "bool" -> Got("SETTING_BOOL")
      [] s = "bool_numeric" -> Got("SETTING_BOOL_NUMERIC")
      [] s = "enum_exclusive" -> Got("SETTING_EXCLUSIVE_LIST")
      [] s = "enum_inclusive" -> Got("SETTING_INCLUSIVE_LIST")
      [] s = "load_file" -> Got("SETTING_LOAD_FILE")
      [] s = "save_file" -> Got("SETTING_SAVE_FILE")
      [] s = "save_folder" -> Got("SETTING_SAVE_FOLDER")
      [] s = "vuid_exclude" -> Got("SETTING_VUID_FILTER")
      [] OTHER -> Failed

\* GetPlatformFlags: the set of platforms named, as a bitset
GetPlatformFlags(names) == {names[i] : i \in 1..Len(names)}

\* GetStatusType
GetStatusType(s) == s

\* ValidatePath: a path that cannot be written to is moved to the local folder
ValidatePath(p) ==
    CASE p = "/locked/out.txt" -> "${LOCAL}/out.txt"
      [] OTHER -> p

\* ReplacePathBuiltInVariables: ${HOME} and ${LOCAL} are expanded
ReplacePathBuiltInVariables(p) ==
    CASE p = "${HOME}/out.txt" -> "/home/user/out.txt"
      [] p = "${LOCAL}/out.txt" -> "/home/user/VulkanSDK/out.txt"
      [] OTHER -> p

-----------------------------------------------------------------------------
(* The well-known layers and their bundled manifests *)

LAYER_THIRD_PARTY == -1

default_layers ==
    << [id |-> 0, name |-> "VK_LAYER_KHRONOS_validation", file |-> "VkLayer_khronos_validation.json"],
       [id |-> 1, name |-> "VK_LAYER_LUNARG_api_dump", file |-> "VkLayer_api_dump.json"],
       [id |-> 2, name |-> "VK_LAYER_LUNARG_device_simulation", file |-> "VkLayer_device_simulation.json"],
       [id |-> 3, name |-> "VK_LAYER_LUNARG_gfxreconstruct", file |-> "VkLayer_gfxreconstruct.json"],
       [id |-> 4, name |-> "VK_LAYER_LUNARG_monitor", file |-> "VkLayer_monitor.json"],
       [id |-> 5, name |-> "VK_LAYER_LUNARG_screenshot", file |-> "VkLayer_screenshot.json"] >>

\* the table entry of a layer id (the table is indexed from 0 in the code)
DefaultLayerOf(layer_id) == default_layers[layer_id + 1]

\* the loop with LAYER_FIRST returned for a name the table does not hold
GetLayerID_first(name) ==
    IF \E i \in 1..Len(default_layers) : default_layers[i].name = name
    THEN default_layers[CHOOSE i \in 1..Len(default_layers) :
                            /\ default_layers[i].name = name
                            /\ \A j \in 1..(i - 1) : default_layers[j].name # name].id
    ELSE 0

\* the loop of GetLayerID; its assert(!name.isEmpty()) is checked by Load
GetLayerID(name) ==
    IF \E i \in 1..Len(default_layers) : default_layers[i].name = name
    THEN default_layers[CHOOSE i \in 1..Len(default_layers) :
                            /\ default_layers[i].name = name
                            /\ \A j \in 1..(i - 1) : default_layers[j].name # name].id
    ELSE LAYER_THIRD_PARTY

GetBuiltinFolder(version) ==
    IF VersionLE(version, MakeVersion(1, 2, 154))
    THEN "layers_1_2_154/"
    ELSE "layers_1_2_154/"

\* QString::startsWith on paths: a prefix of segments
StartsWith(path, prefix) ==
    Len(path) >= Len(prefix) /\ SubSeq(path, 1, Len(prefix)) = prefix

ResourcePrefix == <<":/resourcefiles/">>

\* QString(":/resourcefiles/") + GetBuiltinFolder(_api_version) + default_layers[layer_id].file
BuiltinPath(api_version, layer_id) ==
    ResourcePrefix \o <<GetBuiltinFolder(api_version)>> \o <<DefaultLayerOf(layer_id).file>>

-----------------------------------------------------------------------------
(* The Layer object *)

\* Layer::Layer(): every member default-constructed
NewLayer(layer_type) ==
    [ name |-> "",
      layer_type |-> layer_type,
      file_format_version |-> VERSION_NULL,
      api_version |-> VERSION_NULL,
      implementation_version |-> "",
      library_path |-> "",
      type |-> "",
      description |-> "",
      layer_path |-> <<>>,
      settings |-> <<>>,
      presets |-> <<>> ]

\* the check with the description taken into it
IsValid_description(l) ==
    /\ l.file_format_version # VERSION_NULL
    /\ l.name # ""
    /\ l.type # ""
    /\ l.library_path # ""
    /\ l.api_version # VERSION_NULL
    /\ l.implementation_version # ""
    /\ l.description # ""

IsValid(l) ==
    /\ l.file_format_version # VERSION_NULL
    /\ l.name # ""
    /\ l.type # ""
    /\ l.library_path # ""
    /\ l.api_version # VERSION_NULL
    /\ l.implementation_version # ""

-----------------------------------------------------------------------------
(* Load: the settings of a manifest *)

\* every option key of the model's documents, in the order QJsonObject keeps
KeyOrder == <<"alpha", "beta", "gamma">>

\* QJsonObject::keys(): the keys in ascending order
Keys(o) == SelectSeq(KeyOrder, LAMBDA k : k \in DOMAIN o)

NoSetting ==
    [ key |-> "", label |-> "", description |-> "", type |-> "SETTING_STRING",
      default_value |-> "", enum_values |-> <<>>, enum_labels |-> <<>> ]

\* the switch with the two path calls of the save file in the other order
SettingByType_swapped(setting, json_setting, nd) ==
    CASE setting.type \in {"SETTING_EXCLUSIVE_LIST", "SETTING_INCLUSIVE_LIST"} ->
            LET json_value_options == Value(json_setting, "options")
                object == toObject(json_value_options)
                keys == Keys(object)
            IN  IF IsUndefined(json_value_options) /\ ~nd
                THEN [status |-> "abort", setting |-> setting]
                ELSE [status |-> "ok",
                      setting |-> [setting EXCEPT
                          !.enum_values = [v \in 1..Len(keys) |-> keys[v]],
                          !.enum_labels = [v \in 1..Len(keys) |-> toString(object[keys[v]])]]]
      [] setting.type = "SETTING_SAVE_FILE" ->
            [status |-> "ok",
             setting |-> [setting EXCEPT !.default_value =
                 ValidatePath(ReplacePathBuiltInVariables(setting.default_value))]]
      [] OTHER -> [status |-> "ok", setting |-> setting]

\* the switch on setting.type; status is "ok" or "abort" (an assertion failed)
SettingByType(setting, json_setting, nd) ==
    CASE setting.type \in {"SETTING_EXCLUSIVE_LIST", "SETTING_INCLUSIVE_LIST"} ->
            LET json_value_options == Value(json_setting, "options")
                object == toObject(json_value_options)
                keys == Keys(object)
            IN  IF IsUndefined(json_value_options) /\ ~nd
                THEN [status |-> "abort", setting |-> setting]
                ELSE [status |-> "ok",
                      setting |-> [setting EXCEPT
                          !.enum_values = [v \in 1..Len(keys) |-> keys[v]],
                          !.enum_labels = [v \in 1..Len(keys) |-> toString(object[keys[v]])]]]
      [] setting.type = "SETTING_SAVE_FILE" ->
            [status |-> "ok",
             setting |-> [setting EXCEPT !.default_value =
                 ReplacePathBuiltInVariables(ValidatePath(setting.default_value))]]
      [] OTHER -> [status |-> "ok", setting |-> setting]

\* one element of the "settings" array; status "failed" when a read fails
ParseSetting(json_setting, nd) ==
    LET key == ReadStringValue(json_setting, "key")
        label == ReadStringValue(json_setting, "label")
        description == ReadStringValue(json_setting, "description")
        type_name == ReadStringValue(json_setting, "type")
        type == IF type_name.ok THEN GetSettingType(type_name.val) ELSE Failed
        default == ReadString(json_setting, "default")
    IN  IF ~(key.ok /\ label.ok /\ description.ok /\ type.ok /\ default.ok)
        THEN [status |-> "failed", setting |-> NoSetting]
        ELSE SettingByType(
                 [ key |-> key.val, label |-> label.val, description |-> description.val,
                   type |-> type.val, default_value |-> default.val,
                   enum_values |-> <<>>, enum_labels |-> <<>> ],
                 json_setting, nd)

\* the for loop over the "settings" array, pushing onto this->settings
RECURSIVE LoadSettingsArray(_, _, _, _)
LoadSettingsArray(settings, json_array, i, nd) ==
    IF i > Len(json_array) THEN [status |-> "ok", list |-> settings]
    ELSE LET r == ParseSetting(toObject(json_array[i]), nd)
         IN  IF r.status # "ok" THEN [status |-> r.status, list |-> settings]
             ELSE LoadSettingsArray(Append(settings, r.setting), json_array, i + 1, nd)

\* "Load layer settings": this->settings after the block
LoadSettings(settings, json_layer_object, default_layer, nd) ==
    LET json_settings_value == Value(json_layer_object, "settings")
    IN  IF ~IsUndefined(json_settings_value)
        THEN IF json_settings_value.kind # "array" /\ ~nd
             THEN [status |-> "abort", list |-> settings]
             ELSE LoadSettingsArray(settings, toArray(json_settings_value), 1, nd)
        ELSE [status |-> "ok", list |-> default_layer.settings]

-----------------------------------------------------------------------------
(* Load: the presets of a manifest *)

NoPreset ==
    [ preset_index |-> 0, label |-> "", description |-> "", platform_flags |-> {},
      status_type |-> "", editor_state |-> "", settings |-> <<>> ]

\* the loop over a preset's "settings" array
RECURSIVE LoadPresetValues(_, _, _)
LoadPresetValues(values, json_setting_array, i) ==
    IF i > Len(json_setting_array) THEN [status |-> "ok", list |-> values]
    ELSE LET json_setting_object == toObject(json_setting_array[i])
             key == ReadStringValue(json_setting_object, "key")
             value == ReadString(json_setting_object, "value")
         IN  IF ~(key.ok /\ value.ok) THEN [status |-> "failed", list |-> values]
             ELSE LoadPresetValues(Append(values, [key |-> key.val, value |-> value.val]),
                                   json_setting_array, i + 1)

\* one element of the "presets" array
ParsePreset(json_preset_object) ==
    LET preset_index == ReadIntValue(json_preset_object, "preset-index")
        label == ReadStringValue(json_preset_object, "label")
        description == ReadStringValue(json_preset_object, "description")
        platforms == ReadStringArray(json_preset_object, "platforms")
        status == ReadStringValue(json_preset_object, "status")
        editor_state == ReadStringValue(json_preset_object, "editor_state")
        json_setting_array == ReadArray(json_preset_object, "settings")
        values == IF json_setting_array.ok
                  THEN LoadPresetValues(<<>>, json_setting_array.val, 1)
                  ELSE [status |-> "failed", list |-> <<>>]
    IN  IF ~(preset_index.ok /\ label.ok /\ description.ok /\ platforms.ok
             /\ status.ok /\ editor_state.ok /\ values.status = "ok")
        THEN [status |-> "failed", preset |-> NoPreset]
        ELSE [status |-> "ok",
              preset |-> [ preset_index |-> preset_index.val,
                           label |-> label.val,
                           description |-> description.val,
                           platform_flags |-> GetPlatformFlags(platforms.val),
                           status_type |-> GetStatusType(status.val),
                           editor_state |-> editor_state.val,
                           settings |-> values.list ]]

\* the for loop over the "presets" array, pushing onto this->presets
RECURSIVE LoadPresetsArray(_, _, _)
LoadPresetsArray(presets, json_preset_array, preset_index) ==
    IF preset_index > Len(json_preset_array) THEN [status |-> "ok", list |-> presets]
    ELSE LET r == ParsePreset(toObject(json_preset_array[preset_index]))
         IN  IF r.status # "ok" THEN [status |-> r.status, list |-> presets]
             ELSE LoadPresetsArray(Append(presets, r.preset), json_preset_array, preset_index + 1)

\* "Load layer presets": this->presets after the block
LoadPresets(presets, json_layer_object, default_layer, nd) ==
    LET json_presets_value == Value(json_layer_object, "presets")
    IN  IF ~IsUndefined(json_presets_value)
        THEN IF json_presets_value.kind # "array" /\ ~nd
             THEN [status |-> "abort", list |-> presets]
             ELSE LoadPresetsArray(presets, toArray(json_presets_value), 1)
        ELSE [status |-> "ok", list |-> default_layer.presets]

-----------------------------------------------------------------------------
(* Layer::Load *)

\* QFile::open and readAll: the content of a file, NoFile when it cannot be opened
NoFile == [kind |-> "nofile"]

ReadFile(fs, path) == IF path \in DOMAIN fs THEN fs[path] ELSE NoFile

\* what a Load call that made no nested call reports about its nested call
NoRef ==
    [ invoked |-> FALSE, ret |-> FALSE, outcome |-> "none", step |-> "none",
      path |-> <<>>, parses |-> 0, fallbacks |-> 0, depth |-> 0 ]

\* the end of a Load call: the object, the value returned, how the call ended
\* ("returned" a value, or "abort": an assertion failed; "overflow": the model
\* gave up on the nesting), the step it ended in, the documents parsed and the
\* nested Load made
Result(l, ret, outcome, step, parses, ref) ==
    [ layer |-> l, ret |-> ret, outcome |-> outcome, step |-> step,
      parses |-> parses + ref.parses,
      fallbacks |-> IF ref.invoked THEN 1 + ref.fallbacks ELSE 0,
      depth |-> IF ref.invoked THEN 1 + ref.depth ELSE 0,
      ref |-> [k \in DOMAIN NoRef |-> ref[k]] ]

\* the assert on "library_path"
LibraryPathAssert(json_library_path_value, name) ==
    \/ ~IsUndefined(json_library_path_value) /\ name # "VK_LAYER_LUNARG_override"
    \/ IsUndefined(json_library_path_value) /\ name = "VK_LAYER_LUNARG_override"

\* the fallback taken whatever the file loaded
NeedsDefaultLayer_always(layer_id, json_layer_object, full_path_to_file) ==
    layer_id # LAYER_THIRD_PARTY
    /\ (IsUndefined(Value(json_layer_object, "settings"))
        \/ IsUndefined(Value(json_layer_object, "presets")))

\* the condition under which the default layer file is loaded
NeedsDefaultLayer(layer_id, json_layer_object, full_path_to_file) ==
    LET is_missing_layer_data ==
            \/ IsUndefined(Value(json_layer_object, "settings"))
            \/ IsUndefined(Value(json_layer_object, "presets"))
        is_builtin_layer_file == StartsWith(full_path_to_file, ResourcePrefix)
    IN  layer_id # LAYER_THIRD_PARTY /\ is_missing_layer_data /\ ~is_builtin_layer_file

RECURSIVE Load(_, _, _, _, _, _)

\* Load from "Load default layer json file if necessary" to its end
LoadLayerData(l, fs, full_path_to_file, json_layer_object, fuel, nd) ==
    LET layer_id == GetLayerID(l.name)
        invoked == NeedsDefaultLayer(layer_id, json_layer_object, full_path_to_file)
        ref_path == BuiltinPath(l.api_version, layer_id)
        inner == IF invoked
                 THEN Load(NewLayer(l.layer_type), fs, ref_path, l.layer_type, fuel - 1, nd)
                 ELSE Result(NewLayer(l.layer_type), FALSE, "none", "none", 0, NoRef)
        ref == [ invoked |-> invoked, ret |-> inner.ret, outcome |-> inner.outcome,
                 step |-> inner.step,
                 path |-> IF invoked THEN ref_path ELSE <<>>,
                 parses |-> inner.parses, fallbacks |-> inner.fallbacks,
                 depth |-> inner.depth ]
        default_layer == inner.layer
        s == LoadSettings(l.settings, json_layer_object, default_layer, nd)
        l1 == [l EXCEPT !.settings = s.list]
        p == LoadPresets(l1.presets, json_layer_object, default_layer, nd)
        l2 == [l1 EXCEPT !.presets = p.list]
    IN  IF invoked /\ inner.outcome \in {"abort", "overflow"}
        THEN Result(l, FALSE, inner.outcome, "default_layer", 1, ref)
        ELSE IF invoked /\ ~inner.ret /\ ~nd
        THEN Result(l, FALSE, "abort", "default_layer", 1, ref)
        ELSE IF s.status = "abort" THEN Result(l1, FALSE, "abort", "settings", 1, ref)
        ELSE IF s.status = "failed" THEN Result(l1, FALSE, "returned", "settings", 1, ref)
        ELSE IF p.status = "abort" THEN Result(l2, FALSE, "abort", "presets", 1, ref)
        ELSE IF p.status = "failed" THEN Result(l2, FALSE, "returned", "presets", 1, ref)
        ELSE Result(l2, IsValid(l2), "returned", "end", 1, ref)

\* Load from "Populate key items about the layer" to the default layer
LoadDocument(l, fs, full_path_to_file, json_root_object, fuel, nd) ==
    LET file_format_version == ReadStringValue(json_root_object, "file_format_version")
        l1 == IF file_format_version.ok
              THEN [l EXCEPT !.file_format_version = ParseVersion(file_format_version.val)]
              ELSE l
        layer_object == ReadObject(json_root_object, "layer")
        json_layer_object == IF layer_object.ok THEN layer_object.val ELSE EmptyObject
        name == ReadStringValue(json_layer_object, "name")
        l2 == IF name.ok THEN [l1 EXCEPT !.name = name.val] ELSE l1
        type == ReadStringValue(json_layer_object, "type")
        l3 == IF type.ok THEN [l2 EXCEPT !.type = type.val] ELSE l2
        json_library_path_value == Value(json_layer_object, "library_path")
        l4 == [l3 EXCEPT !.library_path = toString(json_library_path_value)]
        api_version == ReadStringValue(json_layer_object, "api_version")
        l5 == IF api_version.ok
              THEN [l4 EXCEPT !.api_version = ParseVersion(api_version.val)]
              ELSE l4
        implementation_version == ReadStringValue(json_layer_object, "implementation_version")
        l6 == IF implementation_version.ok
              THEN [l5 EXCEPT !.implementation_version = implementation_version.val]
              ELSE l5
        description == ReadStringValue(json_layer_object, "description")
        l7 == IF description.ok THEN [l6 EXCEPT !.description = description.val] ELSE l6
    IN  IF ~file_format_version.ok THEN Result(l, FALSE, "returned", "fields", 1, NoRef)
        ELSE IF ~layer_object.ok THEN Result(l1, FALSE, "returned", "fields", 1, NoRef)
        ELSE IF ~name.ok THEN Result(l1, FALSE, "returned", "fields", 1, NoRef)
        ELSE IF ~type.ok THEN Result(l2, FALSE, "returned", "fields", 1, NoRef)
        ELSE IF ~LibraryPathAssert(json_library_path_value, l3.name) /\ ~nd
        THEN Result(l3, FALSE, "abort", "library_path", 1, NoRef)
        ELSE IF ~api_version.ok THEN Result(l4, FALSE, "returned", "fields", 1, NoRef)
        ELSE IF ~implementation_version.ok THEN Result(l5, FALSE, "returned", "fields", 1, NoRef)
        ELSE IF ~description.ok THEN Result(l6, FALSE, "returned", "fields", 1, NoRef)
        ELSE IF l7.name = "" /\ ~nd THEN Result(l7, FALSE, "abort", "layer_id", 1, NoRef)
        ELSE LoadLayerData(l7, fs, full_path_to_file, json_layer_object, fuel, nd)

\* bool Layer::Load(QString full_path_to_file, LayerType layer_type), called on
\* the object `self` with the files `fs`
Load(self, fs, full_path_to_file, layer_type, fuel, nd) ==
    LET l == [self EXCEPT !.layer_type = layer_type]
        content == ReadFile(fs, full_path_to_file)
        l1 == [l EXCEPT !.layer_path = full_path_to_file]
    IN  IF fuel = 0 THEN Result(self, FALSE, "overflow", "none", 0, NoRef)
        ELSE IF full_path_to_file = <<>> THEN Result(l, FALSE, "returned", "path", 0, NoRef)
        ELSE IF content.kind = "nofile" THEN Result(l, FALSE, "returned", "open", 0, NoRef)
        ELSE IF content.kind = "malformed" THEN Result(l1, FALSE, "returned", "parse", 1, NoRef)
        ELSE IF content.kind = "empty" THEN Result(l1, FALSE, "returned", "empty", 1, NoRef)
        ELSE LoadDocument(l1, fs, full_path_to_file, content.root, fuel, nd)

-----------------------------------------------------------------------------
(* The documents the model loads *)

KHRONOS == "VK_LAYER_KHRONOS_validation"

API_DUMP == "VK_LAYER_LUNARG_api_dump"

OVERRIDE == "VK_LAYER_LUNARG_override"

THIRD_PARTY == "VK_LAYER_ACME_profiler"

Strs(seq) == JArr([i \in 1..Len(seq) |-> JStr(seq[i])])

SettingDoc(key, type, default) ==
    [ key |-> JStr(key), label |-> JStr("Label of " \o key),
      description |-> JStr("About " \o key), type |-> JStr(type), default |-> default ]

PresetDoc(index, label, values) ==
    ("preset-index" :> JInt(index)) @@
    [ label |-> JStr(label), description |-> JStr("About " \o label),
      platforms |-> Strs(<<"WINDOWS", "LINUX">>), status |-> JStr("STABLE"),
      editor_state |-> JStr(""), settings |-> JArr(values) ]

PresetValue(key, value) == JObj([key |-> JStr(key), value |-> value])

\* an inclusive list with a three-element default, and a boolean
SettingsA ==
    JArr(<< JObj(With(SettingDoc("report_flags", "enum_inclusive", Strs(<<"a", "b", "c">>)),
                      "options", JObj([gamma |-> JStr("Gamma"), alpha |-> JStr("Alpha")]))),
            JObj(SettingDoc("enable", "bool", JStr("TRUE"))) >>)

\* a save file, a load file, and defaults given as an empty and a one-element array
SettingsB ==
    JArr(<< JObj(SettingDoc("log_filename", "save_file", JStr("/locked/out.txt"))),
            JObj(SettingDoc("input", "load_file", JStr("${HOME}/out.txt"))),
            JObj(SettingDoc("none", "string", Strs(<<>>))),
            JObj(SettingDoc("one", "string", Strs(<<"x">>))) >>)

\* an exclusive list without its "options"
SettingsC ==
    JArr(<< JObj(SettingDoc("mode", "enum_exclusive", JStr("alpha"))) >>)

SettingsKhronos == JArr(<< JObj(SettingDoc("duplicate_message_limit", "string", JStr("10"))) >>)

SettingsApiDump ==
    JArr(<< JObj(SettingDoc("file", "bool", JStr("FALSE"))),
            JObj(SettingDoc("log_filename", "save_file", JStr("stdout"))) >>)

PresetsA ==
    JArr(<< JObj(PresetDoc(1, "Standard", << PresetValue("enable", JStr("TRUE")),
                                              PresetValue("report_flags", Strs(<<"a", "b">>)) >>)) >>)

PresetsKhronos == JArr(<< JObj(PresetDoc(2, "Reduced-Overhead", <<>>)),
                          JObj(PresetDoc(3, "Best Practices", <<>>)) >>)

PresetsApiDump == JArr(<< JObj(PresetDoc(4, "Console", << PresetValue("file", JStr("FALSE")) >>)) >>)

\* the "layer" object of a complete manifest without settings and presets
LayerDoc(name) ==
    [ name |-> JStr(name), type |-> JStr("GLOBAL"), library_path |-> JStr("./libVkLayer.so"),
      api_version |-> JStr("1.2.154"), implementation_version |-> JStr("1"),
      description |-> JStr("A layer") ]

FullLayerDoc(name, settings, presets) ==
    With(With(LayerDoc(name), "settings", settings), "presets", presets)

Doc(file_format_version, layer_object) ==
    [ kind |-> "doc",
      root |-> [file_format_version |-> JStr(file_format_version), layer |-> JObj(layer_object)] ]

Malformed == [kind |-> "malformed"]

EmptyDoc == [kind |-> "empty"]

\* the manifests of a well-known or third-party layer, by the fields they carry
AxisDocs ==
    { Doc("1.4.0", l) : l \in
        UNION { { FullLayerDoc(n, SettingsA, PresetsA),
                  With(LayerDoc(n), "settings", SettingsA),
                  With(LayerDoc(n), "presets", PresetsA),
                  LayerDoc(n) } : n \in {KHRONOS, API_DUMP, THIRD_PARTY} } }
    \cup { Doc("1.4.0", FullLayerDoc(KHRONOS, SettingsB, PresetsA)),
           Doc("1.4.0", FullLayerDoc(KHRONOS, SettingsC, PresetsA)) }

\* the manifests that differ in "library_path"
LibraryDocs ==
    { Doc("1.4.0", Without(FullLayerDoc(OVERRIDE, SettingsA, PresetsA), "library_path")),
      Doc("1.4.0", FullLayerDoc(OVERRIDE, SettingsA, PresetsA)),
      Doc("1.4.0", Without(FullLayerDoc(THIRD_PARTY, SettingsA, PresetsA), "library_path")) }

\* complete manifests, one field of the validity check empty or not a version
ValidityDocs ==
    { Doc("not a version", FullLayerDoc(THIRD_PARTY, SettingsA, PresetsA)) }
    \cup { Doc("1.4.0", With(FullLayerDoc(THIRD_PARTY, SettingsA, PresetsA), k, JStr(""))) :
             k \in {"name", "type", "library_path", "api_version",
                    "implementation_version", "description"} }

\* manifests without one of the required fields
StructureDocs ==
    { [kind |-> "doc", root |-> [layer |-> JObj(FullLayerDoc(THIRD_PARTY, SettingsA, PresetsA))]],
      [kind |-> "doc", root |-> [file_format_version |-> JStr("1.4.0")]] }
    \cup { Doc("1.4.0", Without(FullLayerDoc(KHRONOS, SettingsA, PresetsA), k)) :
             k \in {"name", "description"} }

UserContents ==
    AxisDocs \cup LibraryDocs \cup ValidityDocs \cup StructureDocs
    \cup {Malformed, EmptyDoc, NoFile}

UserPath == <<"/home/user/", "VkLayer.json">>

KhronosPath == <<":/resourcefiles/", "layers_1_2_154/", "VkLayer_khronos_validation.json">>

ApiDumpPath == <<":/resourcefiles/", "layers_1_2_154/", "VkLayer_api_dump.json">>

\* the bundled manifests: complete; missing and not valid; not self-sufficient and malformed
ResourceSets ==
    { [p \in {KhronosPath, ApiDumpPath} |->
          IF p = KhronosPath
          THEN Doc("1.4.0", FullLayerDoc(KHRONOS, SettingsKhronos, PresetsKhronos))
          ELSE Doc("1.4.0", FullLayerDoc(API_DUMP, SettingsApiDump, PresetsApiDump))],
      [p \in {ApiDumpPath} |->
          Doc("1.4.0", With(FullLayerDoc(API_DUMP, SettingsApiDump, PresetsApiDump),
                            "implementation_version", JStr("")))],
      [p \in {KhronosPath, ApiDumpPath} |->
          IF p = KhronosPath THEN Doc("1.4.0", LayerDoc(KHRONOS)) ELSE Malformed] }

LayerTypes == {"LAYER_TYPE_EXPLICIT", "LAYER_TYPE_IMPLICIT"}

\* the calls of Load the model makes: a path and, for the user's file, its content
LoadInputs ==
    { [path |-> UserPath, content |-> c] : c \in UserContents }
    \cup { [path |-> p, content |-> NoFile] : p \in {<<>>, KhronosPath, ApiDumpPath} }

-----------------------------------------------------------------------------
(* The state machine *)

NoCall ==
    [ op |-> "none", path |-> <<>>, content |-> NoFile, layer_type |-> "LAYER_TYPE_EXPLICIT",
      ret |-> FALSE, outcome |-> "none", step |-> "none", parses |-> 0, fallbacks |-> 0,
      depth |-> 0,
      ref |-> NoRef, pre_settings |-> <<>>, pre_presets |-> <<>> ]

\* the files a call sees: the bundled ones and the user's file
FilesOf(in) ==
    IF in.path = UserPath /\ in.content # NoFile
    THEN [p \in DOMAIN files \cup {UserPath} |-> IF p = UserPath THEN in.content ELSE files[p]]
    ELSE files

Init ==
    /\ ndebug \in BOOLEAN
    /\ files \in ResourceSets
    /\ \E t \in LayerTypes : layer = NewLayer(t)
    /\ loads = 0
    /\ last = NoCall
    /\ delimitedString = <<>>
    /\ strLast = NoStrCall

\* layer.Load(path, layer_type); r is what the call does
DoLoad ==
    \E in \in LoadInputs, t \in LayerTypes :
        /\ last.outcome # "abort"
        /\ loads < MaxLoads
        /\ \E r \in {Load(layer, FilesOf(in), in.path, t, MaxDepth, ndebug)} :
              /\ layer' = r.layer
              /\ loads' = loads + 1
              /\ last' = [ op |-> "load", path |-> in.path, content |-> in.content,
                           layer_type |-> t, ret |-> r.ret, outcome |-> r.outcome,
                           step |-> r.step,
                           parses |-> r.parses, fallbacks |-> r.fallbacks,
                           depth |-> r.depth, ref |-> r.ref,
                           pre_settings |-> layer.settings,
                           pre_presets |-> layer.presets ]
        /\ UNCHANGED <<ndebug, files, delimitedString, strLast>>

\* the Layer object is destroyed and a new one constructed
Construct ==
    \E t \in LayerTypes :
        /\ last.outcome # "abort"
        /\ loads > 0
        /\ layer' = NewLayer(t)
        /\ loads' = 0
        /\ last' = NoCall
        /\ UNCHANGED <<ndebug, files, delimitedString, strLast>>

Next == DoLoad \/ Construct

Spec == Init /\ [][Next]_vars

\* the string helpers alone, started on every delimited string up to MaxLen
StrInit ==
    /\ ndebug = TRUE
    /\ files = [p \in {} |-> NoFile]
    /\ layer = NewLayer("LAYER_TYPE_EXPLICIT")
    /\ loads = 0
    /\ last = NoCall
    /\ delimitedString \in StringsUpTo(MaxLen)
    /\ strLast = NoStrCall

StrSpec == StrInit /\ [][StrNext]_vars

-----------------------------------------------------------------------------
(* Claims about the delimited-string helpers, checked under StrSpec *)

\* the comma-separated elements of s
Elements(s) == {Split(s)[i] : i \in 1..Len(Split(s))}

\* v is a value of a delimited list: not empty and without a comma
IsListValue(v) == v # <<>> /\ ~Contains(v, <<",">>)

\* C9: AppendString(s, v) leaves s unchanged when v is already one of its
\* comma-separated elements, gives exactly v when s is empty, and otherwise
\* gives s followed by ',' and v.  Stated for the values of a delimited list
\* (non-empty, without a comma).
C9_AppendStringContract ==
    (strLast.op = "append" /\ IsListValue(strLast.value)) =>
        LET s == strLast.before
            v == strLast.value
        IN  IF v \in Elements(s) THEN delimitedString = s
            ELSE IF s = <<>> THEN delimitedString = v
            ELSE delimitedString = s \o <<",">> \o v

\* C10: RemoveString(s, v) gives the comma-join of the elements of s in their
\* order with the first occurrence of v taken out when v is an element of s,
\* and leaves s unchanged when it is not (also when v is only a substring of
\* an element).
C10_RemoveStringContract ==
    strLast.op = "remove" =>
        LET s == strLast.before
            v == strLast.value
            els == Split(s)
        IN  IF v \in Elements(s)
            THEN \E i \in 1..Len(els) :
                    /\ els[i] = v
                    /\ \A j \in 1..(i - 1) : els[j] # v
                    /\ delimitedString = Join(SubSeq(els, 1, i - 1) \o SubSeq(els, i + 1, Len(els)))
            ELSE delimitedString = s

\* C10 witness: a value that occurs twice among three elements was removed,
\* and its second occurrence is still there
C10_Witness ==
    /\ strLast.op = "remove"
    /\ IsListValue(strLast.value)
    /\ Len(Split(strLast.before)) >= 2
    /\ strLast.value \in Elements(strLast.before)
    /\ strLast.value \in Elements(delimitedString)
    /\ delimitedString # strLast.before

\* C10 witness of the other case: the value is a substring of an element
\* only, and the string is left as it was
C10_WitnessSubstring ==
    /\ strLast.op = "remove"
    /\ IsListValue(strLast.value)
    /\ Contains(strLast.before, strLast.value)
    /\ strLast.value \notin Elements(strLast.before)
    /\ delimitedString = strLast.before

-----------------------------------------------------------------------------
(* The last Load call, as the claims below read it *)

\* the content of the file the last call was given
LastContent ==
    IF last.path = UserPath THEN last.content ELSE ReadFile(files, last.path)

\* the "layer" object of that document
LastLayerObject == toObject(Value(LastContent.root, "layer"))

HasField(key) == ~IsUndefined(Value(LastLayerObject, key))

DocString(key) == toString(Value(LastLayerObject, key))

IsString(o, key) == Value(o, key).kind = "string"

\* every required field but "library_path" is there
RequiredFieldsPresent ==
    /\ LastContent.kind = "doc"
    /\ IsString(LastContent.root, "file_format_version")
    /\ Value(LastContent.root, "layer").kind = "object"
    /\ \A k \in {"name", "type", "api_version", "implementation_version", "description"} :
           IsString(LastLayerObject, k)

WellKnownNames == {default_layers[i].name : i \in 1..Len(default_layers)}

\* the call got as far as "Load default layer json file if necessary"
ReachedResolution == last.step \in {"default_layer", "settings", "presets", "end"}

\* the call returned from its last line
ReturnedFromEnd == last.op = "load" /\ last.outcome = "returned" /\ last.step = "end"

\* the document's own settings and presets, parsed on their own
OwnSettings ==
    LoadSettingsArray(<<>>, toArray(Value(LastLayerObject, "settings")), 1, ndebug).list

OwnPresets ==
    LoadPresetsArray(<<>>, toArray(Value(LastLayerObject, "presets")), 1).list

\* the reference manifest of a well-known name, loaded directly into a new object
ReferenceLayer(name) ==
    LET file == (CHOOSE d \in {default_layers[i] : i \in 1..Len(default_layers)} :
                     d.name = name).file
    IN  Load(NewLayer(last.layer_type), files,
             <<":/resourcefiles/", "layers_1_2_154/", file>>,
             last.layer_type, MaxDepth, ndebug).layer

-----------------------------------------------------------------------------
(* Claims about Load, checked under Spec *)

\* C1: for a manifest of a well-known layer that is not a bundled one, the
\* settings Load leaves are the document's own when "settings" is present and
\* those of the reference manifest loaded directly when it is absent, and the
\* same holds of the presets, each axis on its own.
C1_AxesResolvedIndependently ==
    (/\ ReturnedFromEnd
     /\ DocString("name") \in WellKnownNames
     /\ ~StartsWith(last.path, ResourcePrefix)) =>
        /\ layer.settings = IF HasField("settings") THEN OwnSettings
                            ELSE ReferenceLayer(DocString("name")).settings
        /\ layer.presets = IF HasField("presets") THEN OwnPresets
                           ELSE ReferenceLayer(DocString("name")).presets

\* C1 on a Layer object that holds no entry of an earlier Load: there the
\* two axes are resolved as claimed.
C1_OnNewObject ==
    (/\ ReturnedFromEnd
     /\ last.pre_settings = <<>> /\ last.pre_presets = <<>>
     /\ DocString("name") \in WellKnownNames
     /\ ~StartsWith(last.path, ResourcePrefix)) =>
        /\ layer.settings = IF HasField("settings") THEN OwnSettings
                            ELSE ReferenceLayer(DocString("name")).settings
        /\ layer.presets = IF HasField("presets") THEN OwnPresets
                           ELSE ReferenceLayer(DocString("name")).presets

\* C2: a Load that gets to the resolution of the default layer loads a
\* reference manifest if and only if the layer name is in the well-known
\* table, "settings" or "presets" is absent, and the file loaded is not a
\* bundled one; a Load that ends before loads none.
C2_FallbackInvokedIff ==
    last.op = "load" =>
        (last.ref.invoked <=>
            /\ ReachedResolution
            /\ DocString("name") \in WellKnownNames
            /\ (~HasField("settings") \/ ~HasField("presets"))
            /\ ~StartsWith(last.path, ResourcePrefix))

\* C2 witness: a well-known layer with its settings and without presets made
\* Load take the reference manifest
C2_Witness ==
    /\ last.op = "load"
    /\ last.ref.invoked
    /\ HasField("settings")
    /\ ~HasField("presets")
    /\ last.ref.path = KhronosPath

\* C3: the Load of a reference manifest loads no further reference manifest,
\* whatever the manifest holds, so a Load ends after at most two parses.
C3_OneLevelOfFallback ==
    last.op = "load" =>
        /\ last.outcome \in {"returned", "abort"}
        /\ last.depth <= 1
        /\ last.parses <= 2
        /\ last.ref.fallbacks = 0
        /\ (StartsWith(last.path, ResourcePrefix) => ~last.ref.invoked)

\* C3 witness: the reference manifest loaded by the fallback lacks settings
\* and presets itself, and two documents were parsed
C3_Witness ==
    /\ last.op = "load"
    /\ last.ref.invoked
    /\ ReadFile(files, last.ref.path).kind = "doc"
    /\ IsUndefined(Value(toObject(Value(ReadFile(files, last.ref.path).root, "layer")), "settings"))
    /\ last.parses = 2

\* C4: when the Load of the reference manifest fails, the outer Load still
\* completes, each axis absent from its document ends up empty, and the
\* document's identity fields and the axis it carries are kept.
C4_FallbackFailureNotFatal ==
    (last.op = "load" /\ last.ref.invoked /\ ~last.ref.ret) =>
        /\ ReturnedFromEnd
        /\ (~HasField("settings") => layer.settings = <<>>)
        /\ (~HasField("presets") => layer.presets = <<>>)
        /\ layer.name = DocString("name")
        /\ layer.description = DocString("description")

\* a structurally bad input: nothing to open or to parse, or a document
\* without one of its required fields
StructurallyBad ==
    \/ last.path = <<>>
    \/ LastContent.kind \in {"nofile", "malformed", "empty"}
    \/ ~RequiredFieldsPresent
    \/ ~HasField("library_path") /\ DocString("name") # "VK_LAYER_LUNARG_override"

\* C5: on a structurally bad input Load ends in failure, without an abort,
\* without adding settings or presets, and without going on past the missing
\* field.
C5_BadInputFails ==
    (last.op = "load" /\ StructurallyBad) =>
        /\ last.outcome = "returned"
        /\ ~last.ret
        /\ ~ReachedResolution
        /\ layer.settings = last.pre_settings
        /\ layer.presets = last.pre_presets

\* C6: with its other required fields there, a document is rejected for its
\* "library_path" exactly when the field is absent and the layer is not the
\* override layer; for the override layer absence is accepted, and presence
\* is accepted for every name.
C6_LibraryPathRule ==
    (last.op = "load" /\ last.path # <<>> /\ RequiredFieldsPresent) =>
        (last.step = "library_path" <=>
            (~HasField("library_path") /\ DocString("name") # "VK_LAYER_LUNARG_override"))

RECURSIVE CommaJoin(_)
CommaJoin(array) ==
    IF Len(array) = 0 THEN ""
    ELSE IF Len(array) = 1 THEN toString(array[1])
    ELSE CommaJoin(SubSeq(array, 1, Len(array) - 1)) \o "," \o toString(array[Len(array)])

\* the "default" of a setting as the claim has it stored
Flattened(json_value_default) ==
    IF json_value_default.kind = "array"
    THEN CommaJoin(json_value_default.arr)
    ELSE toString(json_value_default)

\* the elements of the document's "settings" array, and the setting stored for each
DocSettings == toArray(Value(LastLayerObject, "settings"))

StoredSetting(i) == layer.settings[Len(last.pre_settings) + i]

\* C8 (as claimed): for every setting the default stored is the document's
\* "default" itself when it is a string and the comma-join of its elements
\* when it is an array.
C8_DefaultStoredForEverySetting ==
    (ReturnedFromEnd /\ HasField("settings")) =>
        \A i \in 1..Len(DocSettings) :
            StoredSetting(i).default_value = Flattened(Value(toObject(DocSettings[i]), "default"))

\* C8 (amended): the same, for every setting whose type is not save_file.
C8_DefaultStoredUnlessSaveFile ==
    (ReturnedFromEnd /\ HasField("settings")) =>
        \A i \in 1..Len(DocSettings) :
            toString(Value(toObject(DocSettings[i]), "type")) # "save_file" =>
                StoredSetting(i).default_value = Flattened(Value(toObject(DocSettings[i]), "default"))

\* C8 witness: defaults given as arrays of three, one and no elements were
\* stored as "a,b,c", the element and the empty string, after an earlier Load
\* or not
C8_Witness ==
    /\ ReturnedFromEnd
    /\ HasField("settings")
    /\ \E i \in 1..Len(DocSettings) :
          /\ Value(toObject(DocSettings[i]), "default") = Strs(<<"x">>)
          /\ StoredSetting(i).default_value = "x"
    /\ \E i \in 1..Len(DocSettings) :
          /\ Value(toObject(DocSettings[i]), "default") = Strs(<<>>)
          /\ StoredSetting(i).default_value = ""

\* C8 witness of the three-element array of the claim
C8_WitnessThree ==
    /\ ReturnedFromEnd
    /\ HasField("settings")
    /\ \E i \in 1..Len(DocSettings) :
          /\ Value(toObject(DocSettings[i]), "default") = Strs(<<"a", "b", "c">>)
          /\ StoredSetting(i).default_value = "a,b,c"

\* the "type" string of the i-th element of the document's "settings"
DocSettingType(i) == toString(Value(toObject(DocSettings[i]), "type"))

\* the "default" of that element, read as one string
DocSettingDefault(i) == Flattened(Value(toObject(DocSettings[i]), "default"))

\* C11: for every save-file setting Load parses, the default stored is the
\* document's default put through path validation first and built-in variable
\* substitution second, with nothing stored over it afterwards; for a setting
\* of any other type the default stored went through neither path function.
C11_SaveFilePathProcessing ==
    (ReturnedFromEnd /\ HasField("settings")) =>
        \A i \in 1..Len(DocSettings) :
            StoredSetting(i).default_value =
                IF DocSettingType(i) = "save_file"
                THEN ReplacePathBuiltInVariables(ValidatePath(DocSettingDefault(i)))
                ELSE DocSettingDefault(i)

\* C11 witness: a save file whose default the two path functions change, and
\* change differently in the other order, was stored next to a load file whose
\* default substitution would change and which was stored as it is
C11_Witness ==
    /\ ReturnedFromEnd
    /\ HasField("settings")
    /\ \E i \in 1..Len(DocSettings) :
          /\ DocSettingType(i) = "save_file"
          /\ StoredSetting(i).type = "SETTING_SAVE_FILE"
          /\ StoredSetting(i).default_value # DocSettingDefault(i)
          /\ StoredSetting(i).default_value #
                 ValidatePath(ReplacePathBuiltInVariables(DocSettingDefault(i)))
    /\ \E i \in 1..Len(DocSettings) :
          /\ DocSettingType(i) = "load_file"
          /\ ReplacePathBuiltInVariables(DocSettingDefault(i)) # DocSettingDefault(i)
          /\ StoredSetting(i).default_value = DocSettingDefault(i)

\* the i-th element of the document's "settings" is a list setting without "options"
EnumWithoutOptions(i) ==
    /\ DocSettingType(i) \in {"enum_exclusive", "enum_inclusive"}
    /\ IsUndefined(Value(toObject(DocSettings[i]), "options"))

\* C12: a list setting (enum_exclusive, enum_inclusive) whose entry has no
\* "options" never makes Load abort and is never stored with empty
\* enum_values and enum_labels; Load has no diagnostic besides its failure,
\* so a Load that returns from its last line has stored it silently.
C12_EnumWithoutOptionsFlagged ==
    (/\ last.op = "load"
     /\ last.step \in {"settings", "presets", "end"}
     /\ HasField("settings")) =>
        \A i \in 1..Len(DocSettings) :
            EnumWithoutOptions(i) =>
                /\ last.outcome # "abort"
                /\ ~(/\ Len(layer.settings) >= Len(last.pre_settings) + i
                     /\ StoredSetting(i).enum_values = <<>>
                     /\ StoredSetting(i).enum_labels = <<>>)

-----------------------------------------------------------------------------
(* Claims about sequences of AppendString and RemoveString, under StrSpec *)

\* after AppendString(s, v), v is one of the comma-separated elements of s
C13_AppendLeavesMember ==
    (strLast.op = "append" /\ IsListValue(strLast.value)) =>
        strLast.value \in Elements(delimitedString)

\* RemoveString(s, v) right after an AppendString(s, v) that changed s gives
\* the s of before the AppendString
C13_RemoveUndoesAppend ==
    (/\ strLast.op = "append"
     /\ IsListValue(strLast.value)
     /\ delimitedString # strLast.before
     /\ strLast'.op = "remove"
     /\ strLast'.value = strLast.value) =>
        delimitedString' = strLast.before

\* C13: through any sequence of AppendString and RemoveString calls with
\* values of a delimited list (non-empty, without a comma), every
\* AppendString(s, v) leaves v as one of the comma-separated elements of s,
\* also when v was in s only as a substring of another element, and a
\* RemoveString(s, v) right after an AppendString(s, v) that changed s
\* restores the s of before.
C13_AppendStringMembership ==
    []C13_AppendLeavesMember /\ [][C13_RemoveUndoesAppend]_vars

\* the second half of C13 on its own
C13_RoundTrip == [][C13_RemoveUndoesAppend]_vars

-----------------------------------------------------------------------------
(* Claims about Load called again on the same object, under Spec *)

\* C14: a Load of a document with "settings" and "presets" present leaves in
\* the object exactly the document's settings and presets, in document order,
\* whatever an earlier Load on the same object left there; so a second Load
\* of the same document leaves what the first one left.
C14_LoadReplaces ==
    (ReturnedFromEnd /\ HasField("settings") /\ HasField("presets")) =>
        /\ layer.settings = OwnSettings
        /\ layer.presets = OwnPresets

====
